---- MODULE Spec2Model ----
(***************************************************************************)
(* Model of golf_course_schema.py: four independent Schema.org JSON-LD     *)
(* builders (GolfCourseSchema, ReviewSchema, BreadcrumbSchema,             *)
(* TeeTimeEventSchema).  One builder instance is modelled at a time: the   *)
(* classes share no state, so Init picks the class that was constructed.   *)
(*                                                                         *)
(* Python values                                                           *)
(*   - a str / int of fixed type is a TLA+ string / integer;               *)
(*   - a value whose Python type is dynamic (it may be None, it is tested  *)
(*     for truthiness, or it goes through str()) is a tagged record, see   *)
(*     None, PyInt, PyStr, PyFloat;                                        *)
(*   - a dict is a function from keys to values, a freshly built list is a *)
(*     sequence, and a list attribute of the builder stored in a returned  *)
(*     dict is a reference (Ref) to that attribute: Python stores the list *)
(*     object itself, not a copy.                                          *)
(***************************************************************************)
EXTENDS Integers, Sequences, FiniteSets, TLC

VARIABLES
    cls,    \* class of the builder instance
    self,   \* the instance's attributes
    ret,    \* the dict returned by the most recent to_json() call
    prev,   \* the dict returned by the to_json() call just before it, when
            \* no mutator ran in between (NoRet otherwise)
    last,   \* name of the most recent method call
    hist,   \* history of the calls: arguments of the append calls and of
            \* the most recent setter call
    args    \* SpecSpecs only: the argument tuple set_course_specs will get

vars == <<cls, self, ret, prev, last, hist, args>>

\* ------------------------------------------------------------------ bounds
MaxImages == 2
MaxOther == 1
MaxItems == 3
MaxReviews == 3

\* ---------------------------------------------------------- Python values
None == [type |-> "NoneType"]
PyInt(n) == [type |-> "int", value |-> n]
PyStr(s) == [type |-> "str", value |-> s]
\* a float with one decimal digit, held in tenths: PyFloat(765) is 76.5
PyFloat(t) == [type |-> "float", tenths |-> t]
\* a reference to the list object held by attribute attr of the builder
Ref(attr) == [type |-> "ref", attr |-> attr]

\* Python truthiness: bool(v)
bool(v) ==
    CASE v.type = "NoneType" -> FALSE
      [] v.type = "int" -> v.value # 0
      [] v.type = "str" -> v.value # ""
      [] v.type = "float" -> v.tenths # 0

Digit(d) ==
    CASE d = 0 -> "0" [] d = 1 -> "1" [] d = 2 -> "2" [] d = 3 -> "3"
      [] d = 4 -> "4" [] d = 5 -> "5" [] d = 6 -> "6" [] d = 7 -> "7"
      [] d = 8 -> "8" [] d = 9 -> "9"

RECURSIVE Decimal(_)
Decimal(n) == IF n < 10 THEN Digit(n) ELSE Decimal(n \div 10) \o Digit(n % 10)

\* Python str(v), for the non-negative numbers the model passes
str(v) ==
    CASE v.type = "NoneType" -> PyStr("None")
      [] v.type = "int" -> PyStr(Decimal(v.value))
      [] v.type = "str" -> v
      [] v.type = "float" ->
            PyStr(Decimal(v.tenths \div 10) \o "." \o Digit(v.tenths % 10))

\* dict.get(key): None when the key is missing
Get(d, k) == IF k \in DOMAIN d THEN d[k] ELSE None

\* the empty dict / the empty list
EmptyDict == <<>>
NoRet == <<>>
NoCall == [type |-> "nocall"]
NoArgs == [type |-> "noargs"]

Classes == {"GolfCourseSchema", "ReviewSchema", "BreadcrumbSchema", "TeeTimeEventSchema"}

\* ------------------------------------------------------- call bookkeeping
\* a mutator call op left the attributes s and the call history h
Call(op, s, h) ==
    /\ self' = s
    /\ hist' = h
    /\ last' = op
    /\ prev' = NoRet
    /\ UNCHANGED <<cls, ret, args>>

\* a to_json() call returned r and left the attributes s
Return(r, s) ==
    /\ ret' = r
    /\ prev' = IF last = "to_json" THEN ret ELSE NoRet
    /\ last' = "to_json"
    /\ self' = s
    /\ UNCHANGED <<cls, hist, args>>

Appended(x) == [hist EXCEPT !.added = Append(@, x)]
Setter(x) == [hist EXCEPT !.lastset = x]

\* --------------------------------------------------------- GolfCourseSchema
GolfCourseSchema_init ==
    [ name |-> "Pine Valley Golf Club",
      url |-> "https://example.com/courses/pine-valley",
      telephone |-> "+1-609-465-3886",
      email |-> "reservations@pinevalley.com",
      street_address |-> "123 Fairway Drive",
      city |-> "Pine Valley",
      state |-> "NJ",
      postal_code |-> "08021",
      latitude |-> PyFloat(398),
      longitude |-> PyFloat(-748),
      images |-> <<>>,
      opening_hours |-> <<>>,
      amenities |-> <<>>,
      course_specs |-> EmptyDict,
      social_profiles |-> <<>> ]

add_image(s, image_url) == [s EXCEPT !.images = Append(@, image_url)]

add_opening_hours(s, day_of_week, opens, closes) ==
    [s EXCEPT !.opening_hours = Append(@,
        ( "@type" :> "OpeningHoursSpecification" @@ "dayOfWeek" :> day_of_week
          @@ "opens" :> opens @@ "closes" :> closes ))]

add_amenity(s, amenity_name) == [s EXCEPT !.amenities = Append(@, amenity_name)]

SpecsDict(par, holes, rating, slope, length_yards, architect, established) ==
    [ par |-> par, holes |-> holes, rating |-> rating, slope |-> slope,
      length_yards |-> length_yards, architect |-> architect,
      established |-> established ]

\* set_course_specs that updates the dict and skips the optional arguments
\* left at None
set_course_specs_merge(s, par, holes, rating, slope, length_yards, architect, established) ==
    LET old == s.course_specs
        Keep(k, v) == IF v = None /\ k \in DOMAIN old THEN old[k] ELSE v
    IN  [s EXCEPT !.course_specs =
            SpecsDict(par, holes, rating, slope, Keep("length_yards", length_yards),
                      Keep("architect", architect), Keep("established", established))]

set_course_specs(s, par, holes, rating, slope, length_yards, architect, established) ==
    [s EXCEPT !.course_specs =
        SpecsDict(par, holes, rating, slope, length_yards, architect, established)]

add_social_profile(s, profile_url) ==
    [s EXCEPT !.social_profiles = Append(@, profile_url)]

build_address(s) ==
    ( "@type" :> "PostalAddress" @@ "streetAddress" :> s.street_address
      @@ "addressLocality" :> s.city @@ "addressRegion" :> s.state
      @@ "postalCode" :> s.postal_code @@ "addressCountry" :> "US" )

build_geo(s) ==
    ( "@type" :> "GeoCoordinates" @@ "latitude" :> s.latitude
      @@ "longitude" :> s.longitude )

build_amenities(s) ==
    [ i \in 1..Len(s.amenities) |->
        ( "@type" :> "LocationFeatureSpecification" @@ "name" :> s.amenities[i] ) ]

PropertyValue(name, value) ==
    ( "@type" :> "PropertyValue" @@ "name" :> name @@ "value" :> value )

\* build_course_properties with the "Length Unit" entry appended outside the
\* length_yards test
build_course_properties_unit_always(s) ==
    LET specs == s.course_specs
    IN  ( IF bool(Get(specs, "par"))
          THEN <<PropertyValue("Par", str(specs["par"]))>> ELSE <<>> )
        \o ( IF bool(Get(specs, "holes"))
          THEN <<PropertyValue("Holes", str(specs["holes"]))>> ELSE <<>> )
        \o ( IF bool(Get(specs, "length_yards"))
          THEN <<PropertyValue("Length", str(specs["length_yards"]))>> ELSE <<>> )
        \o <<PropertyValue("Length Unit", PyStr("yards"))>>
        \o ( IF bool(Get(specs, "rating"))
          THEN <<PropertyValue("Course Rating", str(specs["rating"]))>> ELSE <<>> )
        \o ( IF bool(Get(specs, "slope"))
          THEN <<PropertyValue("Slope Rating", str(specs["slope"]))>> ELSE <<>> )
        \o ( IF bool(Get(specs, "architect"))
          THEN <<PropertyValue("Course Architect", specs["architect"])>> ELSE <<>> )
        \o ( IF bool(Get(specs, "established"))
          THEN <<PropertyValue("Established", str(specs["established"]))>> ELSE <<>> )

\* build_course_properties walking the specs in the order of the parameters of
\* set_course_specs (length after slope)
build_course_properties_signature_order(s) ==
    LET specs == s.course_specs
    IN  ( IF bool(Get(specs, "par"))
          THEN <<PropertyValue("Par", str(specs["par"]))>> ELSE <<>> )
        \o ( IF bool(Get(specs, "holes"))
          THEN <<PropertyValue("Holes", str(specs["holes"]))>> ELSE <<>> )
        \o ( IF bool(Get(specs, "rating"))
          THEN <<PropertyValue("Course Rating", str(specs["rating"]))>> ELSE <<>> )
        \o ( IF bool(Get(specs, "slope"))
          THEN <<PropertyValue("Slope Rating", str(specs["slope"]))>> ELSE <<>> )
        \o ( IF bool(Get(specs, "length_yards"))
          THEN << PropertyValue("Length", str(specs["length_yards"])),
                  PropertyValue("Length Unit", PyStr("yards")) >>
          ELSE <<>> )
        \o ( IF bool(Get(specs, "architect"))
          THEN <<PropertyValue("Course Architect", specs["architect"])>> ELSE <<>> )
        \o ( IF bool(Get(specs, "established"))
          THEN <<PropertyValue("Established", str(specs["established"]))>> ELSE <<>> )

build_course_properties(s) ==
    LET specs == s.course_specs
    IN  ( IF bool(Get(specs, "par"))
          THEN <<PropertyValue("Par", str(specs["par"]))>> ELSE <<>> )
        \o ( IF bool(Get(specs, "holes"))
          THEN <<PropertyValue("Holes", str(specs["holes"]))>> ELSE <<>> )
        \o ( IF bool(Get(specs, "length_yards"))
          THEN << PropertyValue("Length", str(specs["length_yards"])),
                  PropertyValue("Length Unit", PyStr("yards")) >>
          ELSE <<>> )
        \o ( IF bool(Get(specs, "rating"))
          THEN <<PropertyValue("Course Rating", str(specs["rating"]))>> ELSE <<>> )
        \o ( IF bool(Get(specs, "slope"))
          THEN <<PropertyValue("Slope Rating", str(specs["slope"]))>> ELSE <<>> )
        \o ( IF bool(Get(specs, "architect"))
          THEN <<PropertyValue("Course Architect", specs["architect"])>> ELSE <<>> )
        \o ( IF bool(Get(specs, "established"))
          THEN <<PropertyValue("Established", str(specs["established"]))>> ELSE <<>> )

\* a key of the returned dict that is set only under a condition
Optional(cond, key, value) == IF cond THEN key :> value ELSE EmptyDict

\* the image value with the test len(self.images) > 0
image_value_list_when_any(s) == IF Len(s.images) > 0 THEN Ref("images") ELSE s.images[1]

\* the value to_json stores under "image": the list itself, or its only element
image_value(s) == IF Len(s.images) > 1 THEN Ref("images") ELSE s.images[1]

GolfCourseSchema_to_json(s) ==
    ( "@context" :> "https://schema.org"
      @@ "@type" :> <<"LocalBusiness", "GolfCourse">>
      @@ "name" :> s.name
      @@ "url" :> s.url
      @@ "telephone" :> s.telephone
      @@ "email" :> s.email
      @@ "address" :> build_address(s)
      @@ "geo" :> build_geo(s) )
    @@ Optional(s.images # <<>>, "image", image_value(s))
    @@ Optional(s.opening_hours # <<>>, "openingHoursSpecification",
                Ref("opening_hours"))
    @@ Optional(s.amenities # <<>>, "amenityFeature", build_amenities(s))
    @@ Optional(s.course_specs # EmptyDict, "additionalProperty",
                build_course_properties(s))
    @@ Optional(s.social_profiles # <<>>, "sameAs", Ref("social_profiles"))

\* inputs
ImageUrls == { PyStr("https://example.com/images/pine-valley-hero.jpg"),
               PyStr("https://example.com/images/clubhouse.jpg") }
Weekend == <<"Saturday", "Sunday">>
Architect == PyStr("George Arthur Crump, Hugh Wilson")
\* argument tuples of set_course_specs, by parameter name; an omitted optional
\* argument is the default None
SpecsFalsy == SpecsDict(PyInt(0), PyInt(0), PyFloat(0), PyInt(0), None, None, None)
SpecsShort == SpecsDict(PyInt(72), PyInt(18), PyFloat(765), PyInt(147), None, None, None)
SpecsFull ==
    SpecsDict(PyInt(72), PyInt(18), PyFloat(765), PyInt(147), PyInt(6701), Architect, PyInt(1913))
SomeSpecArgs == {SpecsFalsy, SpecsShort, SpecsFull}
AllSpecArgs ==
    [ par : {PyInt(0), PyInt(72)}, holes : {PyInt(0), PyInt(18)},
      rating : {PyFloat(0), PyFloat(765)}, slope : {PyInt(0), PyInt(147)},
      length_yards : {None, PyInt(0), PyInt(6701)},
      architect : {None, PyStr(""), Architect},
      established : {None, PyInt(0), PyInt(1913)} ]

GolfCourse_AddImage(image_url) ==
    /\ cls = "GolfCourseSchema"
    /\ Len(self.images) < MaxImages
    /\ Call("add_image", add_image(self, image_url), Appended(image_url))

GolfCourse_AddOpeningHours(day_of_week, opens, closes) ==
    /\ cls = "GolfCourseSchema"
    /\ Len(self.opening_hours) < MaxOther
    /\ Call("add_opening_hours", add_opening_hours(self, day_of_week, opens, closes), hist)

GolfCourse_AddAmenity(amenity_name) ==
    /\ cls = "GolfCourseSchema"
    /\ Len(self.amenities) < MaxOther
    /\ Call("add_amenity", add_amenity(self, amenity_name), hist)

GolfCourse_SetCourseSpecs(a) ==
    /\ cls = "GolfCourseSchema"
    /\ Call("set_course_specs",
            set_course_specs(self, a.par, a.holes, a.rating, a.slope,
                             a.length_yards, a.architect, a.established),
            Setter(a))

GolfCourse_AddSocialProfile(profile_url) ==
    /\ cls = "GolfCourseSchema"
    /\ Len(self.social_profiles) < MaxOther
    /\ Call("add_social_profile", add_social_profile(self, profile_url), hist)

\* to_json that takes the single image off the list (pop) instead of reading it
GolfCourse_ToJson_pops_image ==
    /\ cls = "GolfCourseSchema"
    /\ Return(GolfCourseSchema_to_json(self),
              IF Len(self.images) = 1 THEN [self EXCEPT !.images = <<>>] ELSE self)

GolfCourse_ToJson ==
    /\ cls = "GolfCourseSchema"
    /\ Return(GolfCourseSchema_to_json(self), self)

\* -------------------------------------------------------------- ReviewSchema
ReviewSchema_init ==
    [ course_name |-> "Pine Valley Golf Club",
      course_url |-> "https://example.com/courses/pine-valley",
      course_image |-> "https://example.com/images/pine-valley.jpg",
      reviews |-> <<>>,
      rating_value |-> PyInt(0),
      rating_count |-> 0 ]

\* the dict add_review appends
Review(headline, body, rating, date_published, author_name) ==
    ( "@type" :> "Review"
      @@ "headline" :> headline
      @@ "reviewBody" :> body
      @@ "reviewRating" :>
            ( "@type" :> "Rating" @@ "ratingValue" :> str(rating)
              @@ "bestRating" :> "5" @@ "worstRating" :> "1" )
      @@ "datePublished" :> date_published
      @@ "author" :> ( "@type" :> "Person" @@ "name" :> author_name ) )

\* add_review that also counts the review in rating_count
add_review_counts_rating(s, headline, body, rating, date_published, author_name) ==
    [s EXCEPT !.reviews = Append(@, Review(headline, body, rating, date_published, author_name)),
              !.rating_count = @ + 1]

add_review(s, headline, body, rating, date_published, author_name) ==
    [s EXCEPT !.reviews = Append(@, Review(headline, body, rating, date_published, author_name))]

set_aggregate_rating(s, rating_value, rating_count) ==
    [s EXCEPT !.rating_value = rating_value, !.rating_count = rating_count]

ReviewSchema_to_json(s) ==
    ( "@context" :> "https://schema.org"
      @@ "@type" :> "LocalBusiness"
      @@ "name" :> s.course_name
      @@ "url" :> s.course_url
      @@ "image" :> s.course_image
      @@ "aggregateRating" :>
            ( "@type" :> "AggregateRating"
              @@ "ratingValue" :> str(s.rating_value)
              @@ "bestRating" :> "5"
              @@ "worstRating" :> "1"
              @@ "ratingCount" :> s.rating_count
              @@ "reviewCount" :> Len(s.reviews) ) )
    @@ Optional(s.reviews # <<>>, "review", Ref("reviews"))

\* inputs
ReviewArgs ==
    { <<"World-class course with exceptional service", "Pine Valley exceeded all expectations.",
        PyInt(5), "2026-01-05", "Michael Thompson">>,
      <<"Great experience, premium pricing", "Exceptional golf course.",
        PyInt(4), "2025-12-15", "Robert Johnson">> }
AggregateArgs ==
    { [rating_value |-> PyFloat(49), rating_count |-> 427],
      [rating_value |-> PyFloat(45), rating_count |-> 2] }

Review_AddReview(a) ==
    /\ cls = "ReviewSchema"
    /\ Len(self.reviews) < MaxReviews
    /\ Call("add_review", add_review(self, a[1], a[2], a[3], a[4], a[5]), Appended(a))

Review_SetAggregateRating(a) ==
    /\ cls = "ReviewSchema"
    /\ Call("set_aggregate_rating", set_aggregate_rating(self, a.rating_value, a.rating_count), Setter(a))

Review_ToJson ==
    /\ cls = "ReviewSchema"
    /\ Return(ReviewSchema_to_json(self), self)

\* ---------------------------------------------------------- BreadcrumbSchema
BreadcrumbSchema_init == [ items |-> <<>> ]

\* add_item with a 0-based position
add_item_position_from_zero(s, name, url) ==
    LET position == Len(s.items)
        item == ( "@type" :> "ListItem" @@ "position" :> position @@ "name" :> name )
                @@ Optional(bool(url), "item", url)
    IN  [s EXCEPT !.items = Append(@, item)]

\* add_item with the test "url is not None"
add_item_url_not_none(s, name, url) ==
    LET position == Len(s.items) + 1
        item == ( "@type" :> "ListItem" @@ "position" :> position @@ "name" :> name )
                @@ Optional(url # None, "item", url)
    IN  [s EXCEPT !.items = Append(@, item)]

add_item(s, name, url) ==
    LET position == Len(s.items) + 1
        item == ( "@type" :> "ListItem" @@ "position" :> position @@ "name" :> name )
                @@ Optional(bool(url), "item", url)
    IN  [s EXCEPT !.items = Append(@, item)]

BreadcrumbSchema_to_json(s) ==
    ( "@context" :> "https://schema.org"
      @@ "@type" :> "BreadcrumbList"
      @@ "itemListElement" :> Ref("items") )

\* inputs; an absent url is the default None
ItemNames == {"Home", "Courses"}
ItemUrls == {None, PyStr(""), PyStr("https://x")}

Breadcrumb_AddItem(name, url) ==
    /\ cls = "BreadcrumbSchema"
    /\ Len(self.items) < MaxItems
    /\ Call("add_item", add_item(self, name, url), Appended([name |-> name, url |-> url]))

Breadcrumb_ToJson ==
    /\ cls = "BreadcrumbSchema"
    /\ Return(BreadcrumbSchema_to_json(self), self)

\* -------------------------------------------------------- TeeTimeEventSchema
TeeTimeEventSchema_init ==
    [ name |-> "Golf Tee Time - 8:00 AM",
      start_date |-> "2026-02-15T08:00:00-05:00",
      end_date |-> "2026-02-15T12:00:00-05:00",
      location_name |-> "Pine Valley Golf Club",
      location_address |->
            ( "@type" :> "PostalAddress" @@ "streetAddress" :> "123 Fairway Drive"
              @@ "addressLocality" :> "Pine Valley" @@ "addressRegion" :> "NJ"
              @@ "postalCode" :> "08021" ),
      price |-> PyFloat(1850),
      currency |-> "USD",
      availability |-> "InStock",
      organizer_name |-> "",
      organizer_url |-> PyStr(""),
      organizer_phone |-> PyStr("") ]

set_availability(s, availability) == [s EXCEPT !.availability = availability]

\* set_organizer that keeps the stored url and phone when the argument is None
set_organizer_keeps_unset(s, name, url, phone) ==
    [s EXCEPT !.organizer_name = name,
              !.organizer_url = IF url = None THEN @ ELSE url,
              !.organizer_phone = IF phone = None THEN @ ELSE phone]

set_organizer(s, name, url, phone) ==
    [s EXCEPT !.organizer_name = name, !.organizer_url = url, !.organizer_phone = phone]

TeeTimeEventSchema_to_json(s) ==
    LET organizer ==
            ( "@type" :> "Organization" @@ "name" :> s.organizer_name )
            @@ Optional(bool(s.organizer_url), "url", s.organizer_url)
            @@ Optional(bool(s.organizer_phone), "telephone", s.organizer_phone)
    IN  ( "@context" :> "https://schema.org"
          @@ "@type" :> "SportsEvent"
          @@ "name" :> s.name
          @@ "startDate" :> s.start_date
          @@ "endDate" :> s.end_date
          @@ "eventStatus" :> "https://schema.org/EventScheduled"
          @@ "eventAttendanceMode" :> "https://schema.org/OfflineEventAttendanceMode"
          @@ "location" :>
                ( "@type" :> "GolfCourse" @@ "name" :> s.location_name
                  @@ "address" :> s.location_address )
          @@ "offers" :>
                ( "@type" :> "Offer" @@ "price" :> str(s.price)
                  @@ "priceCurrency" :> s.currency
                  @@ "availability" :> "https://schema.org/" \o s.availability )
          @@ "organizer" :> organizer )

\* inputs; an absent url or phone is the default None
Availabilities == {"InStock", "OutOfStock", "PreOrder"}
OrganizerNames == {"", "Pine Valley Golf Club"}
OrganizerUrls == {None, PyStr(""), PyStr("https://example.com")}
OrganizerPhones == {None, PyStr(""), PyStr("+1-609-465-3886")}

TeeTime_SetAvailability(availability) ==
    /\ cls = "TeeTimeEventSchema"
    /\ Call("set_availability", set_availability(self, availability), hist)

TeeTime_SetOrganizer(name, url, phone) ==
    /\ cls = "TeeTimeEventSchema"
    /\ Call("set_organizer", set_organizer(self, name, url, phone),
            Setter([name |-> name, url |-> url, phone |-> phone]))

TeeTime_ToJson ==
    /\ cls = "TeeTimeEventSchema"
    /\ Return(TeeTimeEventSchema_to_json(self), self)

\* the dict r as a reader sees it: every reference replaced by the list the
\* attribute of s holds now
RefKeys(c) ==
    CASE c = "GolfCourseSchema" -> {"image", "openingHoursSpecification", "sameAs"}
      [] c = "ReviewSchema" -> {"review"}
      [] c = "BreadcrumbSchema" -> {"itemListElement"}
      [] c = "TeeTimeEventSchema" -> {}

View(r, s) ==
    [ k \in DOMAIN r |->
        IF k \in RefKeys(cls) /\ r[k].type = "ref" THEN s[r[k].attr] ELSE r[k] ]

\* ------------------------------------------------------------ specification
Construct(c) ==
    CASE c = "GolfCourseSchema" -> GolfCourseSchema_init
      [] c = "ReviewSchema" -> ReviewSchema_init
      [] c = "BreadcrumbSchema" -> BreadcrumbSchema_init
      [] c = "TeeTimeEventSchema" -> TeeTimeEventSchema_init

Init ==
    /\ cls \in Classes
    /\ self = Construct(cls)
    /\ ret = NoRet
    /\ prev = NoRet
    /\ last = "__init__"
    /\ hist = [added |-> <<>>, lastset |-> NoCall]
    /\ args = NoArgs

Next ==
    \/ \E u \in ImageUrls : GolfCourse_AddImage(u)
    \/ GolfCourse_AddOpeningHours(Weekend, "06:00", "17:00")
    \/ GolfCourse_AddAmenity("Pro Shop")
    \/ \E a \in SomeSpecArgs : GolfCourse_SetCourseSpecs(a)
    \/ GolfCourse_AddSocialProfile("https://www.facebook.com/pinevalley")
    \/ GolfCourse_ToJson
    \/ \E a \in ReviewArgs : Review_AddReview(a)
    \/ \E a \in AggregateArgs : Review_SetAggregateRating(a)
    \/ Review_ToJson
    \/ \E n \in ItemNames, u \in ItemUrls : Breadcrumb_AddItem(n, u)
    \/ Breadcrumb_ToJson
    \/ \E a \in Availabilities : TeeTime_SetAvailability(a)
    \/ \E n \in OrganizerNames, u \in OrganizerUrls, p \in OrganizerPhones :
            TeeTime_SetOrganizer(n, u, p)
    \/ TeeTime_ToJson

Spec == Init /\ [][Next]_vars

\* The pure-function driver for set_course_specs: the builder was just
\* constructed, args holds any argument combination, the call is made once
\* and the result is serialized.
InitSpecs ==
    /\ cls = "GolfCourseSchema"
    /\ self = Construct(cls)
    /\ ret = NoRet
    /\ prev = NoRet
    /\ last = "__init__"
    /\ hist = [added |-> <<>>, lastset |-> NoCall]
    /\ args \in AllSpecArgs

ApplySpecs ==
    /\ cls = "GolfCourseSchema"
    /\ args # NoArgs
    /\ self' = set_course_specs(self, args.par, args.holes, args.rating, args.slope,
                                args.length_yards, args.architect, args.established)
    /\ hist' = Setter(args)
    /\ last' = "set_course_specs"
    /\ prev' = NoRet
    /\ args' = NoArgs
    /\ UNCHANGED <<cls, ret>>

NextSpecs ==
    \/ ApplySpecs
    \/ GolfCourse_ToJson

SpecSpecs == InitSpecs /\ [][NextSpecs]_vars

\* ------------------------------------------------------------------ claims
\* to_json() of class c has just returned ret
JustSerialized(c) == cls = c /\ last = "to_json"

\* the returned dict as read now
Out == View(ret, self)

\* the names of the entries of an additionalProperty list, in order
Names(properties) == [ i \in 1..Len(properties) |-> properties[i]["name"] ]
Values(properties) == [ i \in 1..Len(properties) |-> properties[i]["value"] ]

\* the example: one amenity "Pro Shop" and set_course_specs(72, 18, 76.5, 147)
\* with length_yards, architect and established left at their default
C1_Example ==
    /\ JustSerialized("GolfCourseSchema")
    /\ self.amenities = <<"Pro Shop">>
    /\ hist.lastset = SpecsShort

\* C1: in the example, additionalProperty has exactly 5 entries, in
\* the order Par, Holes, Course Rating, Slope Rating, with no Length entry.
C1_FiveEntries ==
    C1_Example =>
        /\ "additionalProperty" \in DOMAIN ret
        /\ Len(ret["additionalProperty"]) = 5
        /\ \A i \in 1..Len(ret["additionalProperty"]) :
                ret["additionalProperty"][i]["name"] \notin {"Length", "Length Unit"}

\* C1 amended: in the example, additionalProperty has exactly 4 entries: Par
\* "72", Holes "18", Course Rating "76.5", Slope Rating "147", in that order,
\* with no Length / Length Unit entry.
C1_FourEntries ==
    C1_Example =>
        /\ "additionalProperty" \in DOMAIN ret
        /\ Len(ret["additionalProperty"]) = 4
        /\ Names(ret["additionalProperty"])
                = <<"Par", "Holes", "Course Rating", "Slope Rating">>
        /\ Values(ret["additionalProperty"])
                = <<PyStr("72"), PyStr("18"), PyStr("76.5"), PyStr("147")>>

C1_Witness == C1_Example /\ "additionalProperty" \in DOMAIN ret

OptionalKeys ==
    {"image", "openingHoursSpecification", "amenityFeature", "additionalProperty", "sameAs"}

\* the value of key k of the returned dict is an empty list (image may be a
\* single string instead of a list)
IsEmptyList(k) ==
    IF k = "image" /\ ret[k].type = "str" THEN FALSE ELSE Out[k] = <<>>

\* C2: in the dict GolfCourseSchema.to_json() returns, address and geo are
\* always present and no optional key (image, openingHoursSpecification,
\* amenityFeature, additionalProperty, sameAs) is present with an empty list
\* as its value.
C2_OptionalOmittedWhenEmpty ==
    JustSerialized("GolfCourseSchema") =>
        /\ {"address", "geo"} \subseteq DOMAIN ret
        /\ \A k \in OptionalKeys \cap DOMAIN ret : ~IsEmptyList(k)

\* C3: to_json() of every builder leaves every attribute of the builder
\* unchanged, and two successive to_json() calls with no mutator call in
\* between return deeply equal dicts.
C3_ToJsonPure ==
    /\ [](prev # NoRet => View(prev, self) = View(ret, self))
    /\ [][last' = "to_json" => self' = self]_vars

C3_Witness ==
    /\ cls = "GolfCourseSchema"
    /\ prev # NoRet
    /\ Len(self.images) = 1
    /\ self.course_specs # EmptyDict

\* C4: after any sequence of add_item calls, the k-th element of
\* itemListElement is the k-th item added and has position k, so the
\* positions are exactly 1..n.
C4_Positions ==
    JustSerialized("BreadcrumbSchema") =>
        LET items == Out["itemListElement"]
        IN  /\ Len(items) = Len(hist.added)
            /\ \A k \in 1..Len(items) :
                    /\ items[k]["position"] = k
                    /\ items[k]["name"] = hist.added[k].name

C4_Witness ==
    /\ JustSerialized("BreadcrumbSchema")
    /\ Len(hist.added) = 3
    /\ hist.added[1].name = "Home"
    /\ hist.added[2].name = "Courses"

\* C5: reviewCount is the number of add_review calls made so far and
\* ratingCount the count given to the most recent set_aggregate_rating call
\* (0 if there was none); add_review leaves rating_value and rating_count
\* alone and set_aggregate_rating leaves the stored reviews alone.
C5_IndependentCounts ==
    /\ [](JustSerialized("ReviewSchema") =>
            /\ ret["aggregateRating"]["reviewCount"] = Len(hist.added)
            /\ ret["aggregateRating"]["ratingCount"]
                    = IF hist.lastset = NoCall THEN 0 ELSE hist.lastset.rating_count)
    /\ [][last' = "add_review" =>
            /\ self'.rating_value = self.rating_value
            /\ self'.rating_count = self.rating_count]_vars
    /\ [][last' = "set_aggregate_rating" => self'.reviews = self.reviews]_vars

\* three add_review calls and set_aggregate_rating(4.9, 427)
C5_Witness ==
    /\ JustSerialized("ReviewSchema")
    /\ Len(hist.added) = 3
    /\ hist.lastset = [rating_value |-> PyFloat(49), rating_count |-> 427]
    /\ ret["aggregateRating"]["reviewCount"] = 3
    /\ ret["aggregateRating"]["ratingCount"] = 427

\* C6: with no add_image call the image key is absent; with exactly one, image
\* is that url, a single string; with two or more, image is the list of all the
\* urls added, in insertion order.
C6_ImageShape ==
    JustSerialized("GolfCourseSchema") =>
        /\ Len(hist.added) = 0 => "image" \notin DOMAIN ret
        /\ Len(hist.added) = 1 =>
                /\ "image" \in DOMAIN ret
                /\ ret["image"].type = "str"
                /\ ret["image"] = hist.added[1]
        /\ Len(hist.added) >= 2 =>
                /\ "image" \in DOMAIN ret
                /\ ret["image"].type = "ref"
                /\ Out["image"] = hist.added

C6_Witness ==
    /\ JustSerialized("GolfCourseSchema")
    /\ Len(hist.added) = 2
    /\ hist.added[1] # hist.added[2]
    /\ "image" \in DOMAIN ret

\* the order of the property names
FixedOrder ==
    << "Par", "Holes", "Length", "Length Unit", "Course Rating", "Slope Rating",
       "Course Architect", "Established" >>

\* the set_course_specs argument behind a property name
ArgumentOf(name) ==
    CASE name = "Par" -> "par"
      [] name = "Holes" -> "holes"
      [] name \in {"Length", "Length Unit"} -> "length_yards"
      [] name = "Course Rating" -> "rating"
      [] name = "Slope Rating" -> "slope"
      [] name = "Course Architect" -> "architect"
      [] name = "Established" -> "established"

\* 0, 0.0, "" and None
Absent(v) == v \in {None, PyInt(0), PyFloat(0), PyStr("")}

\* the property names a call with arguments a must produce
Expected(a) ==
    LET Given(name) == ~Absent(a[ArgumentOf(name)])
    IN  SelectSeq(FixedOrder, Given)

\* the additionalProperty list of the returned dict ([] when the key is absent)
Properties == IF "additionalProperty" \in DOMAIN ret THEN ret["additionalProperty"] ELSE <<>>

\* C7: additionalProperty holds a property exactly when the argument behind it
\* is truthy (0, "" and None count as absent), in the fixed order Par, Holes,
\* Length, Length Unit, Course Rating, Slope Rating, Course Architect,
\* Established, with Length Unit exactly when Length; par=72 gives Par "72"
\* and par=0 gives no Par.
C7_TruthyInFixedOrder ==
    (JustSerialized("GolfCourseSchema") /\ hist.lastset # NoCall) =>
        /\ Names(Properties) = Expected(hist.lastset)
        /\ hist.lastset.par = PyInt(72) =>
                Properties[1] = PropertyValue("Par", PyStr("72"))
        /\ hist.lastset.par = PyInt(0) =>
                \A i \in 1..Len(Properties) : Properties[i]["name"] # "Par"

C7_Witness ==
    /\ JustSerialized("GolfCourseSchema")
    /\ hist.lastset # NoCall
    /\ hist.lastset.par = PyInt(0)
    /\ hist.lastset.length_yards = PyInt(6701)
    /\ hist.lastset.architect = PyStr("")
    /\ hist.lastset.established = PyInt(1913)
    /\ Len(Properties) = 6

\* C8: set_course_specs overwrites: the stored specs and the additionalProperty
\* output depend only on the arguments of the last call, an optional value
\* given earlier and omitted in the last call does not appear, and the call
\* changes no other attribute.
C8_Overwrite ==
    /\ []((cls = "GolfCourseSchema" /\ hist.lastset # NoCall) =>
            /\ self.course_specs = hist.lastset
            /\ last = "to_json" =>
                    /\ Names(Properties) = Expected(hist.lastset)
                    /\ Properties = build_course_properties(
                            [GolfCourseSchema_init EXCEPT !.course_specs = hist.lastset]))
    /\ [][last' = "set_course_specs" =>
            self' = [self EXCEPT !.course_specs = self'.course_specs]]_vars

\* the dict returned before the last set_course_specs call shows an architect,
\* the last call left architect unset
C8_Witness ==
    /\ cls = "GolfCourseSchema"
    /\ last = "set_course_specs"
    /\ hist.lastset = SpecsShort
    /\ \E i \in 1..Len(Properties) : Properties[i]["name"] = "Course Architect"
    /\ self.images # <<>>
    /\ self.amenities # <<>>

\* C9: organizer always has a name key ("" when set_organizer was never
\* called), and url / telephone exactly when the value given to the most
\* recent set_organizer call is truthy: the call overwrites the stored
\* organizer entirely.
C9_Organizer ==
    cls = "TeeTimeEventSchema" =>
        LET c == hist.lastset
            url == IF c = NoCall THEN PyStr("") ELSE c.url
            phone == IF c = NoCall THEN PyStr("") ELSE c.phone
        IN  /\ self.organizer_name = IF c = NoCall THEN "" ELSE c.name
            /\ self.organizer_url = url
            /\ self.organizer_phone = phone
            /\ last = "to_json" =>
                    LET organizer == ret["organizer"]
                    IN  /\ "name" \in DOMAIN organizer
                        /\ organizer["name"] = self.organizer_name
                        /\ "url" \in DOMAIN organizer <=> ~Absent(url)
                        /\ "telephone" \in DOMAIN organizer <=> ~Absent(phone)
                        /\ "url" \in DOMAIN organizer => organizer["url"] = url
                        /\ "telephone" \in DOMAIN organizer => organizer["telephone"] = phone

\* the dict returned before the last set_organizer call shows a url and a
\* telephone, the last call gave neither
C9_Witness ==
    /\ cls = "TeeTimeEventSchema"
    /\ last = "set_organizer"
    /\ ret # NoRet
    /\ {"url", "telephone"} \subseteq DOMAIN ret["organizer"]
    /\ hist.lastset.url = None
    /\ hist.lastset.phone = None

\* C10: a breadcrumb item has an item key exactly when add_item got a
\* non-empty url (None and "" omit the key), the key holds the url verbatim,
\* and every item has @type, position and name.
C10_ItemKey ==
    JustSerialized("BreadcrumbSchema") =>
        LET items == Out["itemListElement"]
        IN  /\ Len(items) = Len(hist.added)
            /\ \A k \in 1..Len(items) :
                    /\ "item" \in DOMAIN items[k] <=> hist.added[k].url \notin {None, PyStr("")}
                    /\ "item" \in DOMAIN items[k] => items[k]["item"] = hist.added[k].url
                    /\ {"@type", "position", "name"} \subseteq DOMAIN items[k]

C10_Witness ==
    /\ JustSerialized("BreadcrumbSchema")
    /\ Len(self.items) = 3
    /\ hist.added[1].url = PyStr("https://x")
    /\ hist.added[2].url = None
    /\ hist.added[3].url = PyStr("")
    /\ "item" \in DOMAIN self.items[1]
    /\ "item" \notin DOMAIN self.items[2]

\* the review list of the returned dict ([] when the key is absent)
Reviews == IF "review" \in DOMAIN ret THEN Out["review"] ELSE <<>>

\* C11: a dict returned by to_json() is a snapshot: a mutator call made on the
\* builder afterwards changes nothing a reader finds in it (its review,
\* itemListElement, openingHoursSpecification, sameAs and image lists), and in
\* the ReviewSchema dict reviewCount stays the length of its own review list.
C11_Snapshot ==
    /\ [][(ret # NoRet /\ last' # "to_json") => View(ret', self') = View(ret, self)]_vars
    /\ []((cls = "ReviewSchema" /\ ret # NoRet) =>
            ret["aggregateRating"]["reviewCount"] = Len(Reviews))

====
